---- MODULE Spec2Model ----
(***************************************************************************)
(* A model of the EVCS scraper (src/evcs_scraper.py): the aggregation of   *)
(* charge-point entries into station records, the summary enrichment, the  *)
(* two tabular projections and the run() orchestration around them.        *)
(* The run() of the simple variant (src/evcs_scraper_simple.py) is         *)
(* modelled next to it, on the same variables.                             *)
(*                                                                         *)
(* Data representation.  A Python dict is a record                         *)
(*     [kind, keys, val, cps]                                              *)
(* where keys is the sequence of its keys in insertion order, val gives    *)
(* the value of every scalar key (strings) and cps is the list held under  *)
(* the key "chargepoints".  A charge-point entry is a record with one      *)
(* field per key the code reads; the string Absent marks a missing key     *)
(* and Null the JSON null / Python None.                                   *)
(***************************************************************************)
EXTENDS Integers, Sequences, FiniteSets, TLC

VARIABLES
    pc,                 \* position inside run()
    email_api_key,      \* TRUE iff EMAIL_API_KEY is set and the SDK imported
    brotli,             \* TRUE iff `import brotli` succeeded
    decoded,            \* the locals of the last pass of the request loop
    driver,             \* "none" | "created" | "quit"
    error_log,          \* self.error_log
    output_files,       \* self.output_files
    disk,               \* files written to the file system, in write order
    all_stations_dict,  \* the dict of extract_station_data, insertion ordered
    fed,                \* history: entries the loop body has been run on
    stations_data,      \* the list returned by scrape_evcs_data
    flat_rows,          \* flat_rows of process_and_export_data
    flat_columns,       \* columns of flat_df after the reordering
    agg_columns,        \* columns of stations_df as exported
    counts,             \* <<stations_count, chargepoints_count>>
    exc,                \* message of the exception in flight, Null if none
    error_details,      \* message captured by the except clause of run()
    notifications,      \* every notification composed, in order
    completed,          \* history: stages that returned without raising
    cleanups,           \* number of calls of cleanup()
    ret                 \* return value of run(); -1 while running

vars == <<pc, email_api_key, brotli, decoded, driver, error_log, output_files, disk,
          all_stations_dict, fed, stations_data, flat_rows,
          flat_columns, agg_columns, counts, exc, error_details, notifications,
          completed, cleanups, ret>>

\* Bounds of the model.
MaxEntries == 3
MaxWarnings == 1

(***************************************************************************)
(* Python values                                                           *)
(***************************************************************************)
Absent == "<absent>"
Null == "<null>"

\* Python truthiness of a scalar read with dict.get
Truthy(s) == s # Null /\ s # Absent /\ s # ""

\* Python `a or b`
Or(a, b) == IF Truthy(a) THEN a ELSE b

AllKeys == {"id", "station_id", "company_id", "evcs_establishment_name",
            "region", "chargepoints_summary", "Charging Protocols",
            "EVCS Modes", "Charging Equipments"}

NoVal == [k \in AllKeys |-> ""]

SeqToSet(s) == {s[i] : i \in 1..Len(s)}

\* `k in d`
Has(d, k) == k \in SeqToSet(d.keys)

\* d.get(k) for a scalar key
Get(d, k) == IF Has(d, k) THEN d.val[k] ELSE Null

\* d[k] = v for a scalar key: a new key goes last, an old one keeps its place
SetItem(d, k, v) ==
    [d EXCEPT !.keys = IF Has(d, k) THEN @ ELSE Append(@, k), !.val[k] = v]

\* d['chargepoints'] = l
SetCps(d, l) ==
    [d EXCEPT !.keys = IF Has(d, "chargepoints") THEN @ ELSE Append(@, "chargepoints"),
              !.cps = l]

\* del d[k]
DelItem(d, k) ==
    [d EXCEPT !.keys = SelectSeq(@, LAMBDA x : x # k), !.val[k] = ""]

\* cp.get(f) on a charge-point entry
CpGet(cp, f) == IF cp[f] = Absent THEN Null ELSE cp[f]

\* A protocol value: a scalar string, an integer (its digits) or a list
PAbsent == [t |-> "absent", s |-> "", l |-> <<>>]
PStr(x) == [t |-> "str", s |-> x, l |-> <<>>]
PInt(digits) == [t |-> "int", s |-> digits, l |-> <<>>]
PList(items) == [t |-> "list", s |-> "", l |-> items]

\* str(p): a string is itself, an integer its decimal digits, None "None"
Str(p) == IF p.t \in {"null", "absent"} THEN "None" ELSE p.s

\* truthiness of a scalar protocol value (None, "" and 0 are falsy)
PTruthy(p) ==
    /\ p.t \in {"str", "int"}
    /\ p.s # ""
    /\ ~(p.t = "int" /\ p.s = "0")

(***************************************************************************)
(* The inputs: station sub-records and charge-point entries                *)
(***************************************************************************)
Dict(keys, val, cps) == [kind |-> "dict", keys |-> keys, val |-> val, cps |-> cps]

StAbsent == [kind |-> "absent", keys |-> <<>>, val |-> NoVal, cps |-> <<>>]
StNull == [kind |-> "null", keys |-> <<>>, val |-> NoVal, cps |-> <<>>]

Entry(st, proto, serial, equip, name, mode, emode, nested) ==
    [station |-> st, charging_protocol |-> proto, id_or_serial_number |-> serial,
     equipment |-> equip, name |-> name, mode |-> mode, evcs_mode |-> emode,
     chargepoints |-> nested]

NoList == [has |-> FALSE, l |-> <<>>]
Nested(l) == [has |-> TRUE, l |-> l]

\* a station carrying every priority column
St1 == Dict(<<"id", "station_id", "company_id", "evcs_establishment_name", "region">>,
            [NoVal EXCEPT !["id"] = "S1", !["station_id"] = "S1",
                          !["company_id"] = "C1",
                          !["evcs_establishment_name"] = "N1",
                          !["region"] = "R1"],
            <<>>)

\* the bare reference {"id": "S1"}
St1b == Dict(<<"id">>, [NoVal EXCEPT !["id"] = "S1"], <<>>)

\* a charge-point record without a station, as found inside a wrapped list
Leaf == Entry(StAbsent, PStr("CHAdeMO"), "E9", Absent, Absent, "DC", Absent, NoList)

\* an empty id, the identity under station_id, a summary and a list of its
\* own, and every priority column in another order than St1
St2 == Dict(<<"region", "chargepoints", "station_id", "id", "chargepoints_summary",
              "evcs_establishment_name", "company_id">>,
            [NoVal EXCEPT !["region"] = "R2", !["station_id"] = "S2",
                          !["id"] = "", !["chargepoints_summary"] = "sum",
                          !["evcs_establishment_name"] = "N2",
                          !["company_id"] = "C2"],
            <<Leaf>>)

\* a sub-record with no identity at all
StNoId == Dict(<<"region", "id">>, [NoVal EXCEPT !["region"] = "R3", !["id"] = Null], <<>>)

CpDirect == Entry(St1, PStr("CCS"), "E1", Absent, Absent, "AC", Absent, NoList)
CpProto == Entry(St1b, PStr("CCS"), Absent, Absent, Absent, Absent, Absent, NoList)
CpProtoList == Entry(St1b, PList(<<PStr("CCS"), PStr("Type2")>>),
                     Absent, Absent, Absent, Absent, Absent, NoList)
CpAlt == Entry(St2, PList(<<PStr("Type2"), PInt("2"), PStr("2")>>),
               Null, "E2", "n2", "", "DC", NoList)
CpWrapped == Entry(St2, PAbsent, Absent, Absent, Absent, Absent, Absent,
                   Nested(<<Leaf>>))
CpNoStation == Entry(StAbsent, PStr("GBT"), "EX", Absent, Absent, "AC", Absent, NoList)
CpNoId == Entry(StNoId, PStr("GBT"), "EX", Absent, Absent, "AC", Absent, NoList)
CpNullStation == Entry(StNull, PStr("GBT"), "EX", Absent, Absent, "AC", Absent, NoList)

\* The entries of the data runs.
DataEntries == {CpDirect, CpProto, CpProtoList, CpAlt, CpWrapped, CpNoId,
                CpNullStation}

\* An intercepted exchange: match says whether it has a response from the
\* listing URL declared as JSON; payload is what json.loads makes of the body.
\* encoding is how the body was compressed ("gzip", "br" or "plain") and
\* payload the text that was compressed: "list" for a JSON object with
\* props.chargepoints = cps, "other" for other JSON, "invalid" for no JSON.
Response(match, encoding, payload, cps) ==
    [match |-> match, encoding |-> encoding, payload |-> payload, cps |-> cps]

Encodings == {"gzip", "br", "plain"}

\* Decode without the reading of the raw bytes as text: what neither
\* decompressor accepts is no JSON.
DecodeNoFallback(r, brotli_available) ==
    LET via == IF r.encoding = "gzip" THEN "gzip"
               ELSE IF brotli_available /\ r.encoding = "br" THEN "brotli"
               ELSE "raw"
    IN [via |-> via, data |-> IF via = "raw" THEN "invalid" ELSE r.payload]

\* The decoding of a body (lines 157-168): `via` is the branch that gave
\* `data`.  gzip.decompress succeeds on a gzip body only, brotli.decompress
\* on a brotli body only; compressed bytes read as UTF-8 are no JSON.
Decode(r, brotli_available) ==
    LET via == IF r.encoding = "gzip" THEN "gzip"
               ELSE IF brotli_available /\ r.encoding = "br" THEN "brotli"
               ELSE "raw"
    IN [via |-> via,
        data |-> IF via = "raw" /\ r.encoding # "plain" THEN "invalid" ELSE r.payload]

\* no pass of the request loop has decoded anything
NoPass == [encoding |-> "", payload |-> "", via |-> "", data |-> "", warned |-> FALSE]

\* the locals after a pass that decoded response r
Pass(r, dec, warned) ==
    [encoding |-> r.encoding, payload |-> r.payload, via |-> dec.via,
     data |-> dec.data, warned |-> warned]

RECURSIVE SeqsUpTo(_, _)
SeqsUpTo(S, n) ==
    IF n = 0 THEN {<<>>}
    ELSE LET shorter == SeqsUpTo(S, n - 1)
         IN shorter \cup {Append(q, e) : q \in {x \in shorter : Len(x) = n - 1}, e \in S}

\* The entries of the orchestration runs: one complete station, one bare
\* reference, one entry without a station and one whose station is null.
RunEntries == {CpDirect, CpProto, CpNoStation, CpNullStation}

\* the responses with at most `room` entries, for room = 0 .. MaxEntries
Responses(universe, encodings) ==
    [room \in 0..MaxEntries |->
        {Response(FALSE, "plain", "other", <<>>)}
        \cup {Response(TRUE, e, p, <<>>) : e \in encodings, p \in {"invalid", "other"}}
        \cup {Response(TRUE, e, "list", cps) :
                  e \in encodings, cps \in SeqsUpTo(universe, room)}]

RunResponses == Responses(RunEntries, Encodings)
DataResponses == Responses(DataEntries, {"gzip"})

(***************************************************************************)
(* extract_station_data: the aggregation                                   *)
(***************************************************************************)
\* station.get('id') or station.get('station_id')
StationId(station) == Or(Get(station, "id"), Get(station, "station_id"))

\* `station_id in all_stations_dict`
InDict(d, k) == \E i \in 1..Len(d) : d[i].key = k

IndexOf(d, k) == CHOOSE i \in 1..Len(d) : d[i].key = k

\* station.get(...) on None raises AttributeError
BodyRaises(cp) == cp.station.kind = "null"

\* StationCopy keeping the list the sub-record came with
StationCopyKeepList(station) == SetCps(station, station.cps)

\* station_copy = station.copy(); station_copy['chargepoints'] = []
StationCopy(station) == SetCps(station, <<>>)

\* all_stations_dict[station_id]['chargepoints'].append(cp)
AppendCp(d, k, cp) == [d EXCEPT ![IndexOf(d, k)].rec.cps = Append(@, cp)]

\* LoopBody with the append in the else branch of the membership test: the
\* entry that creates a station record is not added to its list.
LoopBodyElseAppend(d, cp) ==
    IF cp.station.kind = "absent" THEN d
    ELSE LET station_id == StationId(cp.station) IN
         IF ~Truthy(station_id) THEN d
         ELSE IF InDict(d, station_id) THEN AppendCp(d, station_id, cp)
         ELSE Append(d, [key |-> station_id, rec |-> StationCopy(cp.station)])

\* the body of `for cp in json_data['props']['chargepoints']`, not raising
LoopBody(d, cp) ==
    IF cp.station.kind = "absent" THEN d
    ELSE LET station_id == StationId(cp.station) IN
         IF ~Truthy(station_id) THEN d
         ELSE LET d1 == IF InDict(d, station_id) THEN d
                        ELSE Append(d, [key |-> station_id,
                                        rec |-> StationCopy(cp.station)])
              IN AppendCp(d1, station_id, cp)

\* The state of the loop over one list: the dict, whether the body raised,
\* and how many entries the body was run on.
LoopState(d) == [dict |-> d, raised |-> FALSE, ran |-> 0]

\* one iteration of `for cp in json_data['props']['chargepoints']`
LoopStep(st, cp) ==
    IF BodyRaises(cp)
    THEN [dict |-> st.dict, raised |-> TRUE, ran |-> st.ran + 1]
    ELSE [dict |-> LoopBody(st.dict, cp), raised |-> FALSE, ran |-> st.ran + 1]

\* the loop from entry i on; an exception ends it
RECURSIVE LoopFrom(_, _, _)
LoopFrom(st, cps, i) ==
    IF st.raised \/ i > Len(cps) THEN st
    ELSE LoopFrom(LoopStep(st, cps[i]), cps, i + 1)

Aggregate(d, cps) == LoopFrom(LoopState(d), cps, 1)

(***************************************************************************)
(* extract_chargepoints and the enrichment of process_and_export_data      *)
(***************************************************************************)
HasKey(cp, f) == cp[f] # Absent

RECURSIVE FlattenFrom(_, _)
FlattenFrom(cps, i) ==
    IF i > Len(cps) THEN <<>>
    ELSE (IF cps[i].chargepoints.has THEN cps[i].chargepoints.l ELSE <<>>)
         \o FlattenFrom(cps, i + 1)

extract_chargepoints(station) ==
    LET cps == IF Has(station, "chargepoints") THEN station.cps ELSE <<>> IN
    IF cps = <<>> THEN <<>>
    ELSE IF HasKey(cps[1], "mode") \/ HasKey(cps[1], "id_or_serial_number") THEN cps
    ELSE FlattenFrom(cps, 1)

\* cp.get('charging_protocol')
PNull == [t |-> "null", s |-> "", l |-> <<>>]
GetProtocol(cp) ==
    IF cp.charging_protocol.t = "absent" THEN PNull ELSE cp.charging_protocol

\* what one charge-point adds to the set `protocols`
ProtocolsOf(cp) ==
    LET protocol == GetProtocol(cp) IN
    IF protocol.t = "list" THEN {Str(protocol.l[i]) : i \in 1..Len(protocol.l)}
    ELSE IF PTruthy(protocol) THEN {Str(protocol)}
    ELSE {}

\* cp.get('id_or_serial_number') or cp.get('equipment') or cp.get('name')
EquipmentOf(cp) ==
    Or(Or(CpGet(cp, "id_or_serial_number"), CpGet(cp, "equipment")), CpGet(cp, "name"))

\* cp.get('mode') or cp.get('evcs_mode')
ModeOf(cp) == Or(CpGet(cp, "mode"), CpGet(cp, "evcs_mode"))

\* The strings of the model in the order Python compares them (code points).
StrOrder == <<"2", "AC", "CCS", "CHAdeMO", "DC", "E1", "E2", "E9", "EX", "GBT",
              "Type2", "n2">>

Rank(x) == CHOOSE i \in 1..Len(StrOrder) : StrOrder[i] = x

\* sorted(S) for a set of strings: the n-th item has n items up to it
Sorted(S) ==
    [n \in 1..Cardinality(S) |->
        CHOOSE x \in S : Cardinality({y \in S : Rank(y) <= Rank(x)}) = n]

\* ', '.join(q)
RECURSIVE JoinFrom(_, _)
JoinFrom(q, i) ==
    IF i > Len(q) THEN ""
    ELSE IF i = Len(q) THEN q[i]
    ELSE q[i] \o ", " \o JoinFrom(q, i + 1)

Join(q) == JoinFrom(q, 1)

\* the sets `protocols`, `modes` and `equipments` after `for cp in cps`
Protocols(cps) == UNION {ProtocolsOf(cps[i]) : i \in 1..Len(cps)}

Modes(cps) ==
    UNION {IF Truthy(ModeOf(cps[i])) THEN {ModeOf(cps[i])} ELSE {} : i \in 1..Len(cps)}

Equipments(cps) ==
    UNION {IF Truthy(EquipmentOf(cps[i])) THEN {EquipmentOf(cps[i])} ELSE {} :
              i \in 1..Len(cps)}

\* DropSummary deleting the charge-point list instead of the summary
DropChargepoints(station) ==
    [station EXCEPT !.keys = SelectSeq(@, LAMBDA x : x # "chargepoints"), !.cps = <<>>]

\* `del station['chargepoints_summary']` when the key is there
DropSummary(station) ==
    IF Has(station, "chargepoints_summary")
    THEN DelItem(station, "chargepoints_summary") ELSE station

\* one pass of the loop `for station in stations_data` (lines 240-273)
EnrichStation(station) ==
    LET cps == extract_chargepoints(station)
        protocols == Protocols(cps)
        modes == Modes(cps)
        equipments == Equipments(cps)
        s1 == SetItem(station, "Charging Protocols", Join(Sorted(protocols)))
        s2 == SetItem(s1, "EVCS Modes", Join(Sorted(modes)))
        s3 == SetItem(s2, "Charging Equipments", Join(Sorted(equipments)))
    IN DropSummary(s3)

Enrich(stations) == [i \in 1..Len(stations) |-> EnrichStation(stations[i])]

(***************************************************************************)
(* The two projections of process_and_export_data                          *)
(***************************************************************************)
\* row = copy.deepcopy(base) followed by the three assignments
Row(station, equipment, protocol, mode) ==
    [keys |-> station.keys \o <<"Charging Equipment", "Charging Protocol", "EVCS mode">>,
     val |-> station.val, cps |-> station.cps,
     equipment |-> equipment, protocol |-> protocol, mode |-> mode]

\* the rows one station contributes (lines 293-310)
RowsOf(station) ==
    LET cps == extract_chargepoints(station) IN
    IF cps # <<>>
    THEN [i \in 1..Len(cps) |->
             Row(station, EquipmentOf(cps[i]), GetProtocol(cps[i]), ModeOf(cps[i]))]
    ELSE <<Row(station, "", PStr(""), "")>>

RECURSIVE FlatRowsFrom(_, _)
FlatRowsFrom(stations, i) ==
    IF i > Len(stations) THEN <<>>
    ELSE RowsOf(stations[i]) \o FlatRowsFrom(stations, i + 1)

FlatRows(stations) == FlatRowsFrom(stations, 1)

\* the keys of the dicts one after the other
RECURSIVE KeysFrom(_, _)
KeysFrom(dicts, i) ==
    IF i > Len(dicts) THEN <<>> ELSE dicts[i].keys \o KeysFrom(dicts, i + 1)

\* q without the repetitions of an item, first occurrences in their order
FirstSeen(q) ==
    LET first == {i \in 1..Len(q) : \A j \in 1..(i - 1) : q[j] # q[i]}
    IN [n \in 1..Cardinality(first) |->
           q[CHOOSE i \in first : Cardinality({j \in first : j <= i}) = n]]

\* the columns pandas gives a frame built from dicts: keys in discovery order
Columns(dicts) == FirstSeen(KeysFrom(dicts, 1))

\* stations_df after `drop(columns=['chargepoints'])`
AggColumns(stations) == SelectSeq(Columns(stations), LAMBDA c : c # "chargepoints")

priority_cols == <<"station_id", "company_id", "evcs_establishment_name",
                   "Charging Protocol", "Charging Equipment", "EVCS mode", "region">>

other_cols(cols) == SelectSeq(cols, LAMBDA c : c \notin SeqToSet(priority_cols))

\* flat_df[priority_cols + other_cols] raises KeyError on a missing label
ReorderRaises(cols) == ~(SeqToSet(priority_cols) \subseteq SeqToSet(cols))

Reordered(cols) == priority_cols \o other_cols(cols)

(***************************************************************************)
(* run() and its stages                                                    *)
(***************************************************************************)
Init ==
    /\ pc = "start"
    /\ email_api_key \in BOOLEAN
    /\ brotli \in BOOLEAN
    /\ decoded = NoPass
    /\ driver = "none"
    /\ error_log = <<>>
    /\ output_files = <<>>
    /\ disk = <<>>
    /\ all_stations_dict = <<>>
    /\ fed = <<>>
    /\ stations_data = <<>>
    /\ flat_rows = <<>>
    /\ flat_columns = <<>>
    /\ agg_columns = <<>>
    /\ counts = <<0, 0>>
    /\ exc = Null
    /\ error_details = Null
    /\ notifications = <<>>
    /\ completed = <<>>
    /\ cleanups = 0
    /\ ret = -1

\* an exception leaves the try block of run()
Raise(msg) == pc' = "failed" /\ exc' = msg

\* a stage returns and run() goes on
Return(stage, next) ==
    /\ pc' = next
    /\ completed' = Append(completed, stage)
    /\ exc' = exc

setup_driver ==
    /\ pc = "start"
    /\ \/ /\ driver' = "created"
          /\ Return("setup_driver", "driver_ready")
          /\ error_log' = error_log
       \/ /\ error_log' = Append(error_log, "Failed to initialize Edge WebDriver")
          /\ Raise("Failed to initialize Edge WebDriver")
          /\ UNCHANGED <<driver, completed>>
    /\ UNCHANGED <<email_api_key, brotli, decoded, output_files, disk, all_stations_dict, fed,
                   stations_data, flat_rows, flat_columns, agg_columns, counts,
                   error_details, notifications, cleanups, ret>>

\* scrape_evcs_data up to its call of extract_station_data (lines 99-140)
scrape_evcs_data ==
    /\ pc = "driver_ready"
    /\ \/ /\ pc' = "requests"
          /\ UNCHANGED <<error_log, exc>>
       \/ /\ error_log' = Append(error_log, "CSRF token not found!")
          /\ Raise("CSRF token not found!")
       \/ /\ Raise("WebDriverException")
          /\ error_log' = error_log
    /\ UNCHANGED <<email_api_key, brotli, decoded, driver, output_files, disk, all_stations_dict,
                   fed, stations_data, flat_rows, flat_columns, agg_columns, counts,
                   error_details, notifications, completed, cleanups, ret>>

\* one pass of `for request in self.driver.requests` (lines 148-194)
extract_response(r) ==
    /\ pc = "requests"
    /\ Len(fed) + Len(r.cps) <= MaxEntries
    /\ LET dec == Decode(r, brotli) IN
       IF ~r.match
       THEN UNCHANGED <<error_log, all_stations_dict, fed, decoded>>
       ELSE IF dec.data = "other"
       THEN /\ decoded' = Pass(r, dec, FALSE)
            /\ UNCHANGED <<error_log, all_stations_dict, fed>>
       ELSE IF dec.data = "invalid"
       THEN /\ Len(error_log) < MaxWarnings
            /\ error_log' = Append(error_log, "Error parsing /evcs-locations JSON")
            /\ decoded' = Pass(r, dec, TRUE)
            /\ UNCHANGED <<all_stations_dict, fed>>
       ELSE LET res == Aggregate(all_stations_dict, r.cps) IN
            /\ res.raised => Len(error_log) < MaxWarnings
            /\ all_stations_dict' = res.dict
            /\ fed' = fed \o SubSeq(r.cps, 1, res.ran)
            /\ decoded' = Pass(r, dec, res.raised)
            /\ error_log' = IF res.raised
                            THEN Append(error_log, "Error parsing /evcs-locations JSON")
                            ELSE error_log
    /\ UNCHANGED <<pc, email_api_key, brotli, driver, output_files, disk, stations_data,
                   flat_rows, flat_columns, agg_columns, counts, exc, error_details,
                   notifications, completed, cleanups, ret>>

\* list(all_stations_dict.values())
Values(d) == [i \in 1..Len(d) |-> d[i].rec]

\* extract_finish raising without recording the message in error_log
extract_finish_unlogged ==
    /\ pc = "requests"
    /\ decoded' = NoPass
    /\ IF Values(all_stations_dict) = <<>>
       THEN /\ Raise("No station data found!")
            /\ UNCHANGED <<stations_data, completed>>
       ELSE /\ stations_data' = Values(all_stations_dict)
            /\ Return("scrape_evcs_data", "scraped")
    /\ UNCHANGED <<email_api_key, brotli, driver, error_log, output_files, disk, all_stations_dict, fed, flat_rows, flat_columns, agg_columns,
                   counts, error_details, notifications, cleanups, ret>>

\* the end of extract_station_data (lines 196-204)
extract_finish ==
    /\ pc = "requests"
    /\ decoded' = NoPass
    /\ IF Values(all_stations_dict) = <<>>
       THEN /\ error_log' = Append(error_log, "No station data found!")
            /\ Raise("No station data found!")
            /\ UNCHANGED <<stations_data, completed>>
       ELSE /\ stations_data' = Values(all_stations_dict)
            /\ Return("scrape_evcs_data", "scraped")
            /\ error_log' = error_log
    /\ UNCHANGED <<email_api_key, brotli, driver, output_files, disk, all_stations_dict,
                   fed, flat_rows, flat_columns, agg_columns, counts, error_details,
                   notifications, cleanups, ret>>

\* save_json_data that writes the file and does not list it
save_json_data_unlisted(ok) ==
    /\ pc = "scraped"
    /\ IF ok
       THEN /\ disk' = Append(disk, ".json")
            /\ Return("save_json_data", "saved")
       ELSE /\ Raise("OSError")
            /\ UNCHANGED <<disk, completed>>
    /\ UNCHANGED <<email_api_key, brotli, decoded, driver, error_log, output_files,
                   all_stations_dict, fed, stations_data, flat_rows, flat_columns,
                   agg_columns, counts, error_details, notifications, cleanups, ret>>

\* save_json_data; ok says whether the file could be written
save_json_data(ok) ==
    /\ pc = "scraped"
    /\ IF ok
       THEN /\ disk' = Append(disk, ".json")
            /\ output_files' = Append(output_files, ".json")
            /\ Return("save_json_data", "saved")
       ELSE /\ Raise("OSError")
            /\ UNCHANGED <<disk, output_files, completed>>
    /\ UNCHANGED <<email_api_key, brotli, decoded, driver, error_log, all_stations_dict, fed,
                   stations_data, flat_rows, flat_columns, agg_columns, counts,
                   error_details, notifications, cleanups, ret>>

\* The writes of process_and_export_data in program order.
Writes == <<".xlsx", ".csv", "_flat.xlsx", "_flat.csv">>

\* the files among the first n writes that reach the disk before write
\* number `stop` raises (stop = 0: none raises)
Written(n, stop) == SubSeq(Writes, 1, IF stop = 0 \/ stop > n THEN n ELSE stop - 1)

\* process_and_export_data as a function of its inputs and of the write that
\* fails: the values it leaves behind and the exception it raises, if any.
Export(stations, files, stop) ==
    LET enriched == Enrich(stations)
        rows == FlatRows(enriched)
        cols == Columns(rows)
        base == [stations |-> enriched,
                 agg_columns |-> AggColumns(enriched),
                 flat_rows |-> <<>>, flat_columns |-> <<>>,
                 output_files |-> files, written |-> <<>>,
                 raised |-> Null, counts |-> <<0, 0>>]
    IN  IF stop \in {1, 2}
        THEN [base EXCEPT !.written = Written(2, stop), !.raised = "OSError"]
        ELSE IF ReorderRaises(cols)
        THEN [base EXCEPT !.written = Written(2, 0),
                          !.output_files = files \o <<".xlsx", ".csv">>,
                          !.flat_rows = rows,
                          !.raised = "KeyError"]
        ELSE IF stop \in {3, 4}
        THEN [base EXCEPT !.written = Written(4, stop),
                          !.output_files = files \o <<".xlsx", ".csv">>,
                          !.flat_rows = rows,
                          !.flat_columns = Reordered(cols),
                          !.raised = "OSError"]
        ELSE [base EXCEPT !.written = Written(4, 0),
                          !.output_files = files \o Writes,
                          !.flat_rows = rows,
                          !.flat_columns = Reordered(cols),
                          !.counts = <<Len(enriched), Len(rows)>>]

process_and_export_data(stop) ==
    /\ pc = "saved"
    /\ LET out == Export(stations_data, output_files, stop) IN
       /\ stations_data' = out.stations
       /\ agg_columns' = out.agg_columns
       /\ flat_rows' = out.flat_rows
       /\ flat_columns' = out.flat_columns
       /\ output_files' = out.output_files
       /\ disk' = disk \o out.written
       /\ counts' = out.counts
       /\ IF out.raised = Null
          THEN Return("process_and_export_data", "exported")
          ELSE Raise(out.raised) /\ completed' = completed
    /\ UNCHANGED <<email_api_key, brotli, decoded, driver, error_log, all_stations_dict, fed,
                   error_details, notifications, cleanups, ret>>

\* the files of output_files that os.path.exists finds
Attachments(files, dsk) == SelectSeq(files, LAMBDA f : f \in SeqToSet(dsk))

\* send_email_notification treating missing credentials as an error that it
\* logs
send_email_notification_logging(success, details, outcome) ==
    /\ notifications' = Append(notifications,
            [success |-> success, status |-> IF email_api_key THEN outcome ELSE "skipped",
             errors |-> error_log, files |-> output_files,
             attachments |-> Attachments(output_files, disk), details |-> details,
             counts |-> IF success THEN counts ELSE <<0, 0>>])
    /\ error_log' = IF email_api_key /\ outcome = "sent" THEN error_log
                    ELSE IF email_api_key /\ outcome = "api_error"
                    THEN Append(error_log, "SendinBlue API error")
                    ELSE Append(error_log, "Email notification error")

\* send_email_notification: outcome is what the mail API does with the call
send_email_notification(success, details, outcome) ==
    IF ~email_api_key
    THEN /\ notifications' = Append(notifications,
                [success |-> success, status |-> "skipped", errors |-> <<>>,
                 files |-> <<>>, attachments |-> <<>>, details |-> Null,
                 counts |-> <<0, 0>>])
         /\ error_log' = error_log
    ELSE /\ notifications' = Append(notifications,
                [success |-> success, status |-> outcome, errors |-> error_log,
                 files |-> output_files,
                 attachments |-> Attachments(output_files, disk),
                 details |-> details,
                 counts |-> IF success THEN counts ELSE <<0, 0>>])
         /\ error_log' = IF outcome = "sent" THEN error_log
                         ELSE IF outcome = "api_error"
                         THEN Append(error_log, "SendinBlue API error")
                         ELSE Append(error_log, "Email notification error")

Outcomes == {"sent", "api_error", "error"}

\* run_success with a notification whose failure is not caught inside
\* send_email_notification: it reaches the except clause of run()
run_success_uncaught(outcome) ==
    /\ pc = "exported"
    /\ send_email_notification(TRUE, Null, outcome)
    /\ IF email_api_key /\ outcome # "sent"
       THEN pc' = "failed" /\ exc' = "ApiException"
       ELSE pc' = "finally" /\ exc' = exc
    /\ UNCHANGED <<email_api_key, brotli, decoded, driver, output_files, disk, all_stations_dict,
                   fed, stations_data, flat_rows, flat_columns, agg_columns, counts,
                   error_details, completed, cleanups, ret>>

\* the end of the try block of run(): the success notification
run_success(outcome) ==
    /\ pc = "exported"
    /\ send_email_notification(TRUE, Null, outcome)
    /\ pc' = "finally"
    /\ UNCHANGED <<email_api_key, brotli, decoded, driver, output_files, disk, all_stations_dict,
                   fed, stations_data, flat_rows, flat_columns, agg_columns, counts,
                   exc, error_details, completed, cleanups, ret>>

\* run_except without the failure notification
run_except_unnotified(outcome) ==
    /\ pc = "failed"
    /\ error_details' = exc
    /\ ret' = 1
    /\ exc' = Null
    /\ pc' = "finally"
    /\ UNCHANGED <<email_api_key, brotli, decoded, driver, error_log, output_files,
                   disk, all_stations_dict, fed, stations_data, flat_rows,
                   flat_columns, agg_columns, counts, notifications, completed,
                   cleanups>>

\* the except clause of run(): capture, notify, `return 1`
run_except(outcome) ==
    /\ pc = "failed"
    /\ error_details' = exc
    /\ send_email_notification(FALSE, exc, outcome)
    /\ ret' = 1
    /\ exc' = Null
    /\ pc' = "finally"
    /\ UNCHANGED <<email_api_key, brotli, decoded, driver, output_files, disk, all_stations_dict,
                   fed, stations_data, flat_rows, flat_columns, agg_columns, counts,
                   completed, cleanups>>

\* cleanup that leaves the driver running
cleanup_without_quit ==
    /\ pc = "finally"
    /\ cleanups' = cleanups + 1
    /\ pc' = "cleaned"
    /\ UNCHANGED <<email_api_key, brotli, decoded, driver, error_log, output_files, disk, all_stations_dict, fed, stations_data, flat_rows, flat_columns,
                   agg_columns, counts, exc, error_details, notifications, completed,
                   ret>>

\* the finally clause of run(): cleanup()
cleanup ==
    /\ pc = "finally"
    /\ cleanups' = cleanups + 1
    /\ driver' = IF driver = "created" THEN "quit" ELSE driver
    /\ pc' = "cleaned"
    /\ UNCHANGED <<email_api_key, brotli, decoded, error_log, output_files, disk, all_stations_dict, fed, stations_data, flat_rows, flat_columns,
                   agg_columns, counts, exc, error_details, notifications, completed,
                   ret>>

\* run() returns: the pending `return 1`, or `return 0` after the finally
run_return ==
    /\ pc = "cleaned"
    /\ ret' = IF ret = 1 THEN 1 ELSE 0
    /\ pc' = "done"
    /\ UNCHANGED <<email_api_key, brotli, decoded, driver, error_log, output_files, disk, all_stations_dict, fed, stations_data, flat_rows, flat_columns,
                   agg_columns, counts, exc, error_details, notifications, completed,
                   cleanups>>

\* The run with every failure of the file system and of the mail API, fed
\* with the entries of RunEntries.
Next ==
    \/ setup_driver
    \/ scrape_evcs_data
    \/ pc = "requests" /\ \E r \in RunResponses[MaxEntries - Len(fed)] : extract_response(r)
    \/ extract_finish
    \/ \E ok \in BOOLEAN : save_json_data(ok)
    \/ \E stop \in 0..4 : process_and_export_data(stop)
    \/ \E outcome \in Outcomes : run_success(outcome)
    \/ \E outcome \in Outcomes : run_except(outcome)
    \/ cleanup
    \/ run_return

Spec == Init /\ [][Next]_vars

\* The run fed with every entry of DataEntries in gzip bodies, with the mail
\* API configured and brotli installed, and with a file system and a mail API
\* that do not fail.
InitData == Init /\ email_api_key /\ brotli

NextData ==
    \/ setup_driver
    \/ scrape_evcs_data
    \/ pc = "requests" /\ \E r \in DataResponses[MaxEntries - Len(fed)] : extract_response(r)
    \/ extract_finish
    \/ save_json_data(TRUE)
    \/ process_and_export_data(0)
    \/ run_success("sent")
    \/ run_except("sent")
    \/ cleanup
    \/ run_return

SpecData == InitData /\ [][NextData]_vars

(***************************************************************************)
(* EVCSScraperSimple (src/evcs_scraper_simple.py): run() and its stages.   *)
(* save_json_data, cleanup and the return are the code of EVCSScraper.     *)
(***************************************************************************)
MockCp(serial, proto, mode) ==
    Entry(StAbsent, PStr(proto), serial, Absent, Absent, mode, Absent, NoList)

MockStation(id, name, cp) ==
    Dict(<<"id", "station_id", "evcs_establishment_name", "region", "company_id",
           "chargepoints">>,
         [NoVal EXCEPT !["id"] = id, !["station_id"] = id,
                       !["evcs_establishment_name"] = name,
                       !["region"] = "Test Region",
                       !["company_id"] = "test_company"],
         <<cp>>)

create_mock_data ==
    <<MockStation("test_001", "Test EVCS Station 1",
                  MockCp("TEST_CP_001", "CCS", "DC Fast")),
      MockStation("test_002", "Test EVCS Station 2",
                  MockCp("TEST_CP_002", "Type 2", "AC"))>>

simple_setup_driver ==
    /\ pc = "start"
    /\ \/ /\ driver' = "created"
          /\ Return("setup_driver", "driver_ready")
          /\ error_log' = error_log
       \/ /\ error_log' = Append(error_log, "Both Chrome and Edge WebDriver failed")
          /\ Raise("Both Chrome and Edge WebDriver failed")
          /\ UNCHANGED <<driver, completed>>
    /\ UNCHANGED <<email_api_key, brotli, decoded, output_files, disk,
                   all_stations_dict, fed, stations_data, flat_rows, flat_columns,
                   agg_columns, counts, error_details, notifications, cleanups, ret>>

\* What the page gives: page.kind is "error" when the driver raises, "none"
\* when no script tag holds the data, "data" when one holds the list page.cps.
Pages(universe) ==
    {[kind |-> k, cps |-> <<>>] : k \in {"error", "none"}}
    \cup {[kind |-> "data", cps |-> cps] : cps \in SeqsUpTo(universe, MaxEntries)}

\* scrape_evcs_data of the simple variant (lines 93-203): process_json_data
\* on the data of the page; an exception inside it is swallowed by
\* extract_data_from_page, and an empty result raises.
simple_scrape_evcs_data(page) ==
    /\ pc = "driver_ready"
    /\ LET res == Aggregate(<<>>, page.cps)
           found == IF page.kind = "data" /\ ~res.raised THEN Values(res.dict) ELSE <<>>
       IN /\ fed' = IF page.kind = "data" THEN SubSeq(page.cps, 1, res.ran) ELSE fed
          /\ IF page.kind = "error"
             THEN /\ pc' = "scrape_failed" /\ exc' = "WebDriverException"
                  /\ UNCHANGED <<stations_data, completed>>
             ELSE IF found = <<>>
             THEN /\ pc' = "scrape_failed" /\ exc' = "No station data found!"
                  /\ UNCHANGED <<stations_data, completed>>
             ELSE /\ stations_data' = found
                  /\ Return("scrape_evcs_data", "scraped")
    /\ UNCHANGED <<email_api_key, brotli, decoded, driver, error_log, output_files,
                   disk, all_stations_dict, flat_rows, flat_columns, agg_columns,
                   counts, error_details, notifications, cleanups, ret>>

\* the inner except clause of run() (lines 351-353)
simple_mock_fallback ==
    /\ pc = "scrape_failed"
    /\ stations_data' = create_mock_data
    /\ exc' = Null
    /\ pc' = "scraped"
    /\ UNCHANGED <<email_api_key, brotli, decoded, driver, error_log, output_files,
                   disk, all_stations_dict, fed, flat_rows, flat_columns, agg_columns,
                   counts, error_details, notifications, completed, cleanups, ret>>

\* process_and_export_data of the simple variant (lines 255-272)
simple_process_and_export_data(stop) ==
    /\ pc = "saved"
    /\ agg_columns' = Columns(stations_data)
    /\ disk' = disk \o Written(2, stop)
    /\ IF stop = 0
       THEN /\ output_files' = output_files \o <<".xlsx", ".csv">>
            /\ counts' = <<Len(stations_data), Len(stations_data)>>
            /\ Return("process_and_export_data", "exported")
       ELSE /\ Raise("OSError")
            /\ UNCHANGED <<output_files, counts, completed>>
    /\ UNCHANGED <<email_api_key, brotli, decoded, driver, error_log,
                   all_stations_dict, fed, stations_data, flat_rows, flat_columns,
                   error_details, notifications, cleanups, ret>>

\* send_email_notification of the simple variant (lines 274-334): a failure
\* of the dispatch is printed, not logged
simple_send_email_notification(success, details, outcome) ==
    /\ notifications' = Append(notifications,
          IF ~email_api_key
          THEN [success |-> success, status |-> "skipped", errors |-> <<>>,
                files |-> <<>>, attachments |-> <<>>, details |-> Null,
                counts |-> <<0, 0>>]
          ELSE [success |-> success, status |-> outcome, errors |-> <<>>,
                files |-> output_files,
                attachments |-> Attachments(output_files, disk),
                details |-> details,
                counts |-> IF success THEN counts ELSE <<0, 0>>])
    /\ error_log' = error_log

simple_run_success(outcome) ==
    /\ pc = "exported"
    /\ simple_send_email_notification(TRUE, Null, outcome)
    /\ pc' = "finally"
    /\ UNCHANGED <<email_api_key, brotli, decoded, driver, output_files, disk,
                   all_stations_dict, fed, stations_data, flat_rows, flat_columns,
                   agg_columns, counts, exc, error_details, completed, cleanups, ret>>

simple_run_except(outcome) ==
    /\ pc = "failed"
    /\ error_details' = exc
    /\ simple_send_email_notification(FALSE, exc, outcome)
    /\ ret' = 1
    /\ exc' = Null
    /\ pc' = "finally"
    /\ UNCHANGED <<email_api_key, brotli, decoded, driver, output_files, disk,
                   all_stations_dict, fed, stations_data, flat_rows, flat_columns,
                   agg_columns, counts, completed, cleanups>>

InitSimple == Init /\ ~brotli

NextSimple ==
    \/ simple_setup_driver
    \/ \E page \in Pages(RunEntries) : simple_scrape_evcs_data(page)
    \/ simple_mock_fallback
    \/ \E ok \in BOOLEAN : save_json_data(ok)
    \/ \E stop \in 0..2 : simple_process_and_export_data(stop)
    \/ \E outcome \in Outcomes : simple_run_success(outcome)
    \/ \E outcome \in Outcomes : simple_run_except(outcome)
    \/ cleanup
    \/ run_return

SpecSimple == InitSimple /\ [][NextSimple]_vars

(***************************************************************************)
(* Properties                                                              *)
(***************************************************************************)
\* an entry the aggregator can attribute: a station sub-record with an identity
Attributable(cp) == cp.station.kind = "dict" /\ Truthy(StationId(cp.station))

IdentityOf(cp) == StationId(cp.station)

\* the attributable entries fed so far, and those that reference identity k
FedAttributable == SelectSeq(fed, Attributable)
Referencing(k) == SelectSeq(fed, LAMBDA cp : Attributable(cp) /\ IdentityOf(cp) = k)

DictKeys == [i \in 1..Len(all_stations_dict) |-> all_stations_dict[i].key]

\* the enrichment loop of process_and_export_data has run on stations_data
AfterEnrichment ==
    /\ "save_json_data" \in SeqToSet(completed)
    /\ pc # "saved"

\* C1: for the entries fed to the aggregation loop, every identity referenced
\* by an attributable entry has exactly one station record, whose
\* 'chargepoints' list is the entries referencing it, in the order fed; the
\* records stand in the order in which their identities first appeared, and
\* the list returned is the list of these records.
C1_OneRecordPerIdentity ==
    /\ \A n \in 1..Len(fed) :
         Attributable(fed[n]) =>
             Cardinality({i \in 1..Len(all_stations_dict) :
                             all_stations_dict[i].key = IdentityOf(fed[n])}) = 1
    /\ \A i \in 1..Len(all_stations_dict) :
         all_stations_dict[i].rec.cps = Referencing(all_stations_dict[i].key)
    /\ DictKeys = FirstSeen([n \in 1..Len(FedAttributable) |->
                                IdentityOf(FedAttributable[n])])
    /\ pc = "scraped" =>
         /\ Len(stations_data) = Len(all_stations_dict)
         /\ \A i \in 1..Len(stations_data) :
              /\ StationId(stations_data[i]) = all_stations_dict[i].key
              /\ stations_data[i].cps = Referencing(all_stations_dict[i].key)

\* C1 witness: two stations, the first with two different entries fed around
\* an entry of the second
C1_Witness ==
    /\ pc = "scraped"
    /\ Len(fed) = 3
    /\ fed[1] = CpProto /\ fed[2] = CpAlt /\ fed[3] = CpDirect
    /\ DictKeys = <<"S1", "S2">>
    /\ stations_data[1].cps = <<CpProto, CpDirect>>

\* the entries a step adds to fed
NewlyFed == SubSeq(fed', Len(fed) + 1, Len(fed'))

\* an entry without a station sub-record, or whose sub-record has no identity
Unattributable(cp) == ~Attributable(cp)

\* C2: entries that have no station sub-record, or whose sub-record has
\* neither a non-empty id nor a non-empty station_id, are dropped silently: a
\* response whose entries are all of this kind leaves the station mapping and
\* error_log as they were (so none of them can reach a row of the output).
C2_SilentDrop ==
    [][(fed' # fed /\ \A n \in 1..Len(NewlyFed) : Unattributable(NewlyFed[n]))
          => /\ all_stations_dict' = all_stations_dict
             /\ error_log' = error_log]_vars

\* the three derived strings of a station record
Summaries(station) ==
    <<Get(station, "Charging Protocols"), Get(station, "EVCS Modes"),
      Get(station, "Charging Equipments")>>

\* C3: after the enrichment, 'Charging Protocols' is the sorted,
\* deduplicated, ', '-joined set of the stringified protocol values of all
\* the charge-points accumulated for the station, scalar or list; so the
\* entries "CCS" and ["CCS", "Type2"] of station S1 give "CCS, Type2".
C3_ProtocolsOfAllChargepoints ==
    AfterEnrichment =>
        \A i \in 1..Len(stations_data) :
            Get(stations_data[i], "Charging Protocols")
                = Join(Sorted(Protocols(stations_data[i].cps)))

\* the permutations of a sequence
Reorderings(q) ==
    {[n \in 1..Len(q) |-> q[p[n]]] :
        p \in {f \in [1..Len(q) -> 1..Len(q)] :
                  \A a, b \in 1..Len(q) : f[a] = f[b] => a = b}}

\* C4: the enrichment gives the same three derived strings for every
\* permutation of a station's charge-point list.
C4_OrderIndependent ==
    AfterEnrichment =>
        \A i \in 1..Len(stations_data) :
            \A q \in Reorderings(stations_data[i].cps) :
                Summaries(EnrichStation(SetCps(stations_data[i], q)))
                    = Summaries(stations_data[i])

\* C5: the enrichment applied to an enriched station record leaves the
\* three derived strings as the first application wrote them, and leaves
\* the record's charge-point list as it was.
C5_EnrichIdempotent ==
    AfterEnrichment =>
        \A i \in 1..Len(stations_data) :
            /\ Summaries(EnrichStation(stations_data[i])) = Summaries(stations_data[i])
            /\ EnrichStation(stations_data[i]).cps = stations_data[i].cps
            /\ Has(stations_data[i], "chargepoints")
            /\ stations_data[i].cps = Referencing(StationId(stations_data[i]))

\* C5 witness: an enriched station with two protocols, one of them from an
\* integer, and a summary key that the enrichment removed
C5_Witness ==
    /\ AfterEnrichment
    /\ \E i \in 1..Len(stations_data) :
         /\ Summaries(stations_data[i]) = <<"2, Type2", "DC", "E2">>
         /\ ~Has(stations_data[i], "chargepoints_summary")

RECURSIVE SumFrom(_, _)
SumFrom(q, i) == IF i > Len(q) THEN 0 ELSE q[i] + SumFrom(q, i + 1)

Max(a, b) == IF a >= b THEN a ELSE b

\* C6: the number of flat rows returned by process_and_export_data is the
\* sum over the stations of max(1, n), n the number of charge-points the
\* aggregator accumulated in the station's list.
C6_FlatRowCount ==
    pc = "exported" =>
        /\ counts[2] = Len(flat_rows)
        /\ counts[2] = SumFrom([i \in 1..Len(stations_data) |->
                                   Max(1, Len(stations_data[i].cps))], 1)

\* C7: for a non-empty list of stations, whatever keys they carry, the
\* flattened export succeeds and its columns are the seven priority columns
\* in their order followed by the other columns in discovery order.
C7_PriorityColumnsFirst ==
    (AfterEnrichment /\ stations_data # <<>>) =>
        /\ exc # "KeyError" /\ error_details # "KeyError"
        /\ flat_rows # <<>>
        /\ flat_columns = priority_cols \o other_cols(Columns(flat_rows))

NoData == "No station data found!"

\* the error_log a composed notification was built from: the log of now
\* without whatever the failed dispatch itself added to it afterwards
LogAtDispatch(n) ==
    IF n.status \in {"api_error", "error"}
    THEN SubSeq(error_log, 1, Len(error_log) - 1) ELSE error_log

\* C8: when the loop over the responses ends with no station aggregated,
\* extract_station_data appends 'No station data found!' to error_log and
\* raises; run() then writes no file, makes one notification call, for a
\* failure, whose body (when composed) lists the whole error_log of that
\* moment, earlier warnings included, and returns 1.
C8_NoStationsFatal ==
    /\ [][(pc = "requests" /\ pc' # "requests" /\ all_stations_dict = <<>>)
            => /\ error_log' = Append(error_log, NoData)
               /\ pc' = "failed" /\ exc' = NoData]_vars
    /\ [](exc = NoData => output_files = <<>> /\ disk = <<>>)
    /\ [](error_details = NoData =>
            /\ output_files = <<>> /\ disk = <<>>
            /\ ret = 1
            /\ Len(notifications) = 1
            /\ ~notifications[1].success
            /\ notifications[1].status # "skipped" =>
                  /\ notifications[1].errors = LogAtDispatch(notifications[1])
                  /\ notifications[1].errors # <<>>
                  /\ notifications[1].errors[Len(notifications[1].errors)] = NoData
                  /\ notifications[1].details = NoData)

\* C8 witness: a run that ended on 'No station data found!' after a warning
\* for a response, with the failure notification sent
C8_Witness ==
    /\ pc = "done" /\ ret = 1
    /\ error_details = NoData
    /\ notifications[1].status = "sent"
    /\ notifications[1].errors = <<"Error parsing /evcs-locations JSON", NoData>>

\* C9: on every path through run(), cleanup() runs exactly once, as the
\* last step before run() returns, and a driver that was created is quit:
\* run() never returns with a created driver still running.
C9_CleanupAlways ==
    /\ [](cleanups = IF pc \in {"cleaned", "done"} THEN 1 ELSE 0)
    /\ [](pc = "done" =>
            driver = IF "setup_driver" \in SeqToSet(completed) THEN "quit" ELSE "none")
    /\ [](pc \notin {"cleaned", "done"} =>
            driver = IF "setup_driver" \in SeqToSet(completed) THEN "created" ELSE "none")
    /\ [][cleanups = 1 =>
            UNCHANGED <<email_api_key, brotli, decoded, driver, error_log, output_files, disk, all_stations_dict, fed, stations_data, flat_rows,
                        flat_columns, agg_columns, counts, exc, error_details,
                        notifications, completed, cleanups>>]_vars

\* C9 witness: a failed run that had created its driver and has returned
C9_Witness ==
    /\ pc = "done" /\ ret = 1
    /\ driver = "quit"
    /\ completed = <<"setup_driver", "scrape_evcs_data">>

Stages == <<"setup_driver", "scrape_evcs_data", "save_json_data",
            "process_and_export_data">>

\* C10: run() returns 0 exactly when its four stages all returned without
\* raising, and 1 otherwise; a failure of the notification is caught and
\* appended to error_log, and leaves the return value what it would be.
C10_ExitCode ==
    /\ [](pc = "done" => ret = IF completed = Stages THEN 0 ELSE 1)
    /\ [](pc # "done" => ret = IF error_details = Null THEN -1 ELSE 1)
    /\ [][notifications' # notifications =>
            LET n == notifications'[Len(notifications')] IN
            /\ pc' = "finally"
            /\ n.success = (completed = Stages)
            /\ error_log' =
                  IF n.status = "api_error" THEN Append(error_log, "SendinBlue API error")
                  ELSE IF n.status = "error"
                  THEN Append(error_log, "Email notification error")
                  ELSE error_log]_vars

\* C10 witness: a run that returned 0 although its notification failed
C10_Witness ==
    /\ pc = "done" /\ ret = 0
    /\ notifications[1].status = "api_error"
    /\ error_log[Len(error_log)] = "SendinBlue API error"

Warning == "Error parsing /evcs-locations JSON"

\* C11: whenever the processing of one response raises, exactly one warning
\* is appended to error_log, none of that response's charge-points is in the
\* station mapping afterwards, and the loop goes on with the next response.
C11_FailedResponseDiscarded ==
    [][(pc = "requests" /\ error_log' # error_log
            /\ error_log'[Len(error_log')] = Warning)
          => /\ error_log' = Append(error_log, Warning)
             /\ all_stations_dict' = all_stations_dict
             /\ pc' = "requests" /\ exc' = exc]_vars

\* C12: the decoder tries gzip first, then brotli when the library is there,
\* then the raw bytes as UTF-8: a gzip body is read through gzip, a brotli
\* body through brotli when available, anything else as raw text.  So a
\* plain body of valid JSON is decoded to that JSON without the brotli
\* library, and the pass logs a warning only if an entry of the list raised.
C12_DecoderPriority ==
    decoded # NoPass =>
        /\ decoded.encoding = "gzip" =>
              decoded.via = "gzip" /\ decoded.data = decoded.payload
        /\ (decoded.encoding = "br" /\ brotli) =>
              decoded.via = "brotli" /\ decoded.data = decoded.payload
        /\ (decoded.encoding = "br" /\ ~brotli) =>
              decoded.via = "raw" /\ decoded.warned
        /\ decoded.encoding = "plain" =>
              /\ decoded.via = "raw"
              /\ decoded.data = decoded.payload
              /\ decoded.payload = "other" => ~decoded.warned
              /\ (decoded.payload = "list" /\ decoded.warned) =>
                    fed # <<>> /\ BodyRaises(fed[Len(fed)])

\* C12 witness: without the brotli library, a plain body with a list of
\* valid entries has been aggregated and nothing was logged
C12_Witness ==
    /\ pc = "requests" /\ ~brotli
    /\ decoded.encoding = "plain" /\ decoded.payload = "list"
    /\ decoded.data = "list" /\ ~decoded.warned
    /\ fed = <<CpDirect, CpProto>>
    /\ Len(all_stations_dict) = 1
    /\ error_log = <<>>

\* the five files of a run in the order run() writes them
WriteOrder == <<".json">> \o Writes

\* C13: at every point of a run, every file written to disk is listed in
\* output_files, and output_files lists the files in write order, also when
\* a later write of the same stage fails; so a composed notification attaches
\* every file written before the failure.
C13_ManifestTracksDisk ==
    /\ SeqToSet(disk) \subseteq SeqToSet(output_files)
    /\ output_files = SelectSeq(WriteOrder, LAMBDA f : f \in SeqToSet(output_files))
    /\ \A i \in 1..Len(notifications) :
          notifications[i].status # "skipped" => notifications[i].attachments = disk

\* C14: without an API key (or without the SDK) send_email_notification
\* dispatches nothing and returns normally: the call composes nothing, leaves
\* error_log and output_files as they were and control where it was going;
\* the return value of run() is what the stages alone decide, as with
\* credentials.
C14_NoCredentialsNoOp ==
    /\ [][(notifications' # notifications /\ ~email_api_key)
            => /\ notifications'[Len(notifications')].status = "skipped"
               /\ notifications'[Len(notifications')].attachments = <<>>
               /\ error_log' = error_log
               /\ output_files' = output_files
               /\ disk' = disk
               /\ pc' = "finally"]_vars
    /\ []((pc = "done" /\ ~email_api_key) =>
            /\ ret = IF completed = Stages THEN 0 ELSE 1
            /\ Len(notifications) = 1
            /\ notifications[1].status = "skipped")

\* C14 witness: a run without credentials that exported everything and
\* returned 0 with an empty error_log
C14_Witness ==
    /\ pc = "done" /\ ~email_api_key /\ ret = 0
    /\ notifications[1].status = "skipped"
    /\ error_log = <<>>
    /\ output_files = WriteOrder

\* the extraction attempt of the run has failed: the driver was set up and
\* scrape_evcs_data is over without having returned
ScrapeFailed ==
    /\ "setup_driver" \in SeqToSet(completed)
    /\ "scrape_evcs_data" \notin SeqToSet(completed)
    /\ pc \notin {"driver_ready", "requests"}

\* C15: in both orchestrators a failed extraction attempt is fatal: no later
\* stage runs and no file is written, no data is substituted, no success
\* notification is attempted, and run() makes one failure notification and
\* returns 1.
C15_ScrapeFailureFatal ==
    ScrapeFailed =>
        /\ "save_json_data" \notin SeqToSet(completed)
        /\ "process_and_export_data" \notin SeqToSet(completed)
        /\ stations_data = <<>>
        /\ output_files = <<>> /\ disk = <<>>
        /\ \A i \in 1..Len(notifications) : ~notifications[i].success
        /\ pc = "done" => ret = 1 /\ Len(notifications) = 1

\* the index in stations_data of the station a flat row was copied from
StationOfRow(row) ==
    CHOOSE i \in 1..Len(stations_data) : StationId(stations_data[i]) = StationId(row)

\* the row written for a station without charge-points
Placeholder(row) == row.equipment = "" /\ row.protocol = PStr("") /\ row.mode = ""

\* C16: every station passed to process_and_export_data has at least one
\* flat row, the rows of one station are contiguous and the stations come in
\* input order; a station with no charge-point has exactly one row, with the
\* three charge-point columns empty, and a station with at least one
\* charge-point has no such placeholder row.
C16_EveryStationHasRows ==
    pc = "exported" =>
        /\ \A i \in 1..Len(stations_data) :
              \E n \in 1..Len(flat_rows) : StationOfRow(flat_rows[n]) = i
        /\ \A n, m \in 1..Len(flat_rows) :
              n <= m => StationOfRow(flat_rows[n]) <= StationOfRow(flat_rows[m])
        /\ \A n \in 1..Len(flat_rows) :
              LET station == stations_data[StationOfRow(flat_rows[n])] IN
              IF station.cps = <<>>
              THEN /\ Placeholder(flat_rows[n])
                   /\ \A m \in 1..Len(flat_rows) :
                         StationOfRow(flat_rows[m]) = StationOfRow(flat_rows[n]) => m = n
              ELSE ~Placeholder(flat_rows[n])

DerivedKeys == {"Charging Protocols", "EVCS Modes", "Charging Equipments"}

\* C17: in both variants the aggregated projection that was exported has one
\* row per station record and no 'chargepoints' column, and its columns are
\* the union of the other keys of the stations, the three derived summary
\* fields among them.
C17_AggregatedColumns ==
    "process_and_export_data" \in SeqToSet(completed) =>
        /\ counts[1] = Len(stations_data)
        /\ "chargepoints" \notin SeqToSet(agg_columns)
        /\ SeqToSet(agg_columns) =
              UNION {SeqToSet(stations_data[i].keys) : i \in 1..Len(stations_data)}
                 \ {"chargepoints"}
        /\ DerivedKeys \subseteq SeqToSet(agg_columns)

\* C18: run() runs its stages in the order setup_driver, scrape_evcs_data,
\* save_json_data, process_and_export_data, each only after the earlier ones
\* returned; the first exception ends the stages and its message is captured;
\* every run attempts exactly one notification, before cleanup(), for a
\* success exactly when the four stages returned, and its flag agrees with
\* the return value.
C18_StagesInOrder ==
    /\ [](completed = SubSeq(Stages, 1, Len(completed)))
    /\ [][(exc # Null \/ error_details # Null) => completed' = completed]_vars
    /\ [][(pc = "failed" /\ pc' # "failed") => error_details' = exc /\ exc # Null]_vars
    /\ [](Len(notifications) = IF pc \in {"finally", "cleaned", "done"} THEN 1 ELSE 0)
    /\ [][notifications' # notifications => cleanups = 0 /\ cleanups' = 0]_vars
    /\ [](notifications # <<>> =>
            /\ notifications[1].success = (completed = Stages)
            /\ notifications[1].success = (error_details = Null)
            /\ pc = "done" => notifications[1].success = (ret = 0))

\* C18 witness: a run whose third stage raised: two stages completed, the
\* message captured, one failure notification sent, 1 returned
C18_Witness ==
    /\ pc = "done" /\ ret = 1
    /\ completed = <<"setup_driver", "scrape_evcs_data">>
    /\ error_details = "OSError"
    /\ Len(notifications) = 1
    /\ notifications[1].status = "sent" /\ ~notifications[1].success
    /\ notifications[1].details = "OSError"

\* an element that wraps a nested 'chargepoints' list, and one that does not
IsContainer(cp) == cp.chargepoints.has
IsDirect(cp) == ~cp.chargepoints.has

\* the records under the containers of a list
NestedRecords(cps) ==
    UNION {SeqToSet(cps[i].chargepoints.l) : i \in {j \in 1..Len(cps) : IsContainer(cps[j])}}

\* C19: extract_chargepoints flattens one level of wrapping: a list of
\* containers gives the concatenation of their nested lists, a list of direct
\* records is returned unchanged, and from a mixed list no direct record and
\* no nested record is lost, whichever kind comes first.
C19_FlattenOneLevel ==
    \A i \in 1..Len(stations_data) :
        LET cps == stations_data[i].cps
            out == extract_chargepoints(stations_data[i])
        IN  /\ (\A n \in 1..Len(cps) : IsContainer(cps[n])) => out = FlattenFrom(cps, 1)
            /\ (\A n \in 1..Len(cps) : IsDirect(cps[n])) => out = cps
            /\ {cps[n] : n \in {m \in 1..Len(cps) : IsDirect(cps[m])}} \cup NestedRecords(cps)
                  \subseteq SeqToSet(out)

CpColumns == {"Charging Equipment", "Charging Protocol", "EVCS mode"}

\* C20: every flat row holds only the scalar and derived fields of its
\* station plus the three columns of one charge-point: the 'chargepoints'
\* list of the station is in no flat row and is no flat column; and the
\* station records are as the enrichment left them.
C20_FlatRowsScalarOnly ==
    pc = "exported" =>
        /\ \A n \in 1..Len(flat_rows) :
              LET station == stations_data[StationOfRow(flat_rows[n])] IN
              /\ SeqToSet(flat_rows[n].keys) =
                    (SeqToSet(station.keys) \ {"chargepoints"}) \cup CpColumns
              /\ flat_rows[n].val = station.val
        /\ "chargepoints" \notin SeqToSet(flat_columns)
        /\ \A i \in 1..Len(stations_data) : CpColumns \cap SeqToSet(stations_data[i].keys) = {}

\* C21: the record stored when an identity is first seen is a copy of that
\* entry's station sub-record with a fresh 'chargepoints' list (a list the
\* sub-record came with is discarded), to which the entry is then appended;
\* later entries of the identity only append to the list and leave the other
\* fields of the record alone; and the station sub-records embedded in the
\* entries stay as they were fed.
C21_FreshCopy ==
    /\ [](\A i \in 1..Len(all_stations_dict) :
            LET rec == all_stations_dict[i].rec
                refs == Referencing(all_stations_dict[i].key)
            IN  /\ refs # <<>>
                /\ rec.val = refs[1].station.val
                /\ rec.keys = IF Has(refs[1].station, "chargepoints")
                              THEN refs[1].station.keys
                              ELSE Append(refs[1].station.keys, "chargepoints")
                /\ rec.cps = refs
                /\ \A n \in 1..Len(rec.cps) : rec.cps[n].station = refs[n].station)
    /\ [][pc = "requests" =>
            \A i \in 1..Len(all_stations_dict) :
                /\ all_stations_dict'[i].key = all_stations_dict[i].key
                /\ all_stations_dict'[i].rec.keys = all_stations_dict[i].rec.keys
                /\ all_stations_dict'[i].rec.val = all_stations_dict[i].rec.val
                /\ SubSeq(all_stations_dict'[i].rec.cps, 1,
                          Len(all_stations_dict[i].rec.cps))
                      = all_stations_dict[i].rec.cps]_vars

\* C21 witness: station S2 first seen through an entry whose sub-record has
\* a list of its own, then a second entry of S2: the record's list holds the
\* two entries only, and the first entry still embeds its own list
C21_Witness ==
    /\ pc = "requests"
    /\ fed = <<CpAlt, CpWrapped>>
    /\ Len(all_stations_dict) = 1
    /\ all_stations_dict[1].rec.cps = <<CpAlt, CpWrapped>>
    /\ all_stations_dict[1].rec.cps[1].station.cps = <<Leaf>>
    /\ all_stations_dict[1].rec.keys = St2.keys

\* q is p or p with items added at its end
Extends(q, p) == Len(q) >= Len(p) /\ SubSeq(q, 1, Len(p)) = p

\* C22: in every reachable state of run(), output_files is a prefix of the
\* five file names in write order, of length 0, 1, 3 or 5 and without
\* duplicates; its length is 5 whenever run() returns 0; and neither
\* output_files nor error_log ever loses an entry.
C22_ManifestShape ==
    /\ [](/\ output_files = SubSeq(WriteOrder, 1, Len(output_files))
          /\ Len(output_files) \in {0, 1, 3, 5}
          /\ Cardinality(SeqToSet(output_files)) = Len(output_files))
    /\ []((pc = "done" /\ ret = 0) => Len(output_files) = 5)
    /\ [][Extends(output_files', output_files)]_vars
    /\ [][Extends(error_log', error_log)]_vars

\* C22 witness: a run that failed on a write of the flattened files, with
\* three files listed and the failure of its notification logged
C22_Witness ==
    /\ pc = "done" /\ ret = 1
    /\ output_files = <<".json", ".xlsx", ".csv">>
    /\ error_details = "OSError"
    /\ error_log = <<"SendinBlue API error">>

====
